---- MODULE Spec2Model ----
(***************************************************************************)
(* Model of recurring_events.py: the calendar primitives, the              *)
(* RecurringEvent constructor with its consistency check, the evaluator    *)
(* get_next_date and the enumeration loop of get_events.                   *)
(*                                                                         *)
(* Encoding of Python values:                                              *)
(*   - a date is its proleptic Gregorian ordinal (date.toordinal()), so    *)
(*     date + timedelta(days=n) is integer addition and date comparison    *)
(*     is integer comparison;                                              *)
(*   - None, for an optional integer (day, ordinal, weekday), is an        *)
(*     integer no argument takes; None and 0 are the falsy values.  An     *)
(*     absent date is NoDate;                                              *)
(*   - the outcome of a call is a record: a returned date, a returned      *)
(*     None, or a raised exception.                                        *)
(***************************************************************************)
EXTENDS Integers, Sequences, FiniteSets, TLC

VARIABLES pc, args, self, observed_date, periods, ret, hist

vars == <<pc, args, self, observed_date, periods, ret, hist>>

-----------------------------------------------------------------------------
(* Outcomes of a call *)

None == -1000
NoDate == 0

\* bool(x) for an optional integer
Truthy(x) == x # None /\ x # 0

Return(d) == [kind |-> "date", val |-> d, exc |-> ""]
ReturnNone == [kind |-> "none", val |-> NoDate, exc |-> ""]
Raise(e) == [kind |-> "raise", val |-> NoDate, exc |-> e]

IsDate(r) == r.kind = "date"

-----------------------------------------------------------------------------
(* datetime.date, as the standard library computes it.  The conversions are *)
(* functions, so that an argument is evaluated once, before it is used.     *)

IsLeap(y) == (y % 4 = 0) /\ ((y % 100 # 0) \/ (y % 400 = 0))

days_in_month[y \in Int, m \in Int] ==
    IF m = 2 THEN (IF IsLeap(y) THEN 29 ELSE 28)
    ELSE IF m \in {4, 6, 9, 11} THEN 30 ELSE 31

DaysInMonth(y, m) == days_in_month[y, m]

days_before_year[y \in Int] ==
    (y - 1) * 365 + ((y - 1) \div 4) - ((y - 1) \div 100) + ((y - 1) \div 400)

DaysBeforeYear(y) == days_before_year[y]

\* _DAYS_BEFORE_MONTH[m], plus the leap day after February
days_before_month[y \in Int, m \in Int] ==
    <<0, 31, 59, 90, 120, 151, 181, 212, 243, 273, 304, 334>>[m]
        + (IF m > 2 /\ IsLeap(y) THEN 1 ELSE 0)

DaysBeforeMonth(y, m) == days_before_month[y, m]

ymd2ord_of[y \in Int, m \in Int, d \in Int] ==
    DaysBeforeYear(y) + DaysBeforeMonth(y, m) + d

\* date(y, m, d).toordinal()
ymd2ord(y, m, d) == ymd2ord_of[y, m, d]

year_of[n \in Int] ==
    LET n0   == n - 1
        n400 == n0 \div 146097
        r400 == n0 % 146097
        n100 == r400 \div 36524
        r100 == r400 % 36524
        n4   == r100 \div 1461
        r4   == r100 % 1461
        n1   == r4 \div 365
        y    == n400 * 400 + 1 + n100 * 100 + n4 * 4 + n1
    IN  IF n1 = 4 \/ n100 = 4 THEN y - 1 ELSE y

\* the year of the date with ordinal n
Year(n) == year_of[n]

\* the month that has the zero-based day k of year y: the estimate
\* (k + 50) >> 5, one less when that month starts after k
month_of_day[y \in Int, k \in Int] ==
    IF DaysBeforeMonth(y, (k + 50) \div 32) > k
    THEN ((k + 50) \div 32) - 1 ELSE (k + 50) \div 32

month_of[n \in Int] == month_of_day[Year(n), n - 1 - DaysBeforeYear(Year(n))]

\* the month of the date with ordinal n
Month(n) == month_of[n]

day_of[n \in Int] == n - DaysBeforeYear(Year(n)) - DaysBeforeMonth(Year(n), Month(n))

\* the day of the month of the date with ordinal n
Day(n) == day_of[n]

weekday_of[n \in Int] == (n + 6) % 7

\* date.weekday(): Monday is 0, Sunday is 6
Weekday(n) == weekday_of[n]

MINYEAR == 1
MAXYEAR == 9999

replace_of[y \in Int, m \in Int, d \in Int] ==
    IF y < MINYEAR \/ y > MAXYEAR THEN Raise("ValueError")
    ELSE IF m < 1 \/ m > 12 THEN Raise("ValueError")
    ELSE IF d < 1 \/ d > DaysInMonth(y, m) THEN Raise("ValueError")
    ELSE Return(ymd2ord(y, m, d))

\* date.replace(year=y, month=m, day=d): ValueError for a date that does not exist
replace(y, m, d) == replace_of[y, m, d]

\* calendar.monthrange(year, month)[1]
monthrange1(y, m) == DaysInMonth(y, m)

-----------------------------------------------------------------------------
(* Date functions *)

get_next_workday_by_interval(cur_date, interval) ==
    LET landed == cur_date + interval
    IN  IF Weekday(landed) > 4 THEN landed + 2 ELSE landed

get_next_weekday(cur_date, weekday) ==
    LET days_ahead == weekday - 1 - Weekday(cur_date)
    IN  cur_date + days_ahead

\* ordinal 1..4: the first matching weekday on or after the 1st, plus ordinal - 1 weeks
nth_weekday_from_first(cur_date, ordinal, weekday) ==
    LET reference_date == ymd2ord(Year(cur_date), Month(cur_date), 1)
        adj == (weekday - 1 - Weekday(reference_date)) % 7
    IN  reference_date + adj + 7 * (ordinal - 1)

\* get_nth_weekday_of_month with the year kept when December rolls over
get_nth_weekday_of_month_same_year(cur_date, ordinal, weekday) ==
    IF weekday > 7 THEN Raise("ValueError")
    ELSE IF ordinal > 5 THEN Raise("ValueError")
    ELSE IF ordinal = 5
         THEN LET next_month_date ==
                      IF Month(cur_date) < 12
                      THEN ymd2ord(Year(cur_date), Month(cur_date) + 1, 1)
                      ELSE ymd2ord(Year(cur_date), 1, 1)
                  reference_date == nth_weekday_from_first(next_month_date, 1, weekday)
              IN  Return(reference_date - 7)
         ELSE Return(nth_weekday_from_first(cur_date, ordinal, weekday))

get_nth_weekday_of_month(cur_date, ordinal, weekday) ==
    IF weekday > 7 THEN Raise("ValueError")
    ELSE IF ordinal > 5 THEN Raise("ValueError")
    ELSE IF ordinal = 5
         THEN LET next_month_date ==
                      IF Month(cur_date) < 12
                      THEN ymd2ord(Year(cur_date), Month(cur_date) + 1, 1)
                      ELSE ymd2ord(Year(cur_date) + 1, 1, 1)
                  reference_date == nth_weekday_from_first(next_month_date, 1, weekday)
              IN  Return(reference_date - 7)
         ELSE Return(nth_weekday_from_first(cur_date, ordinal, weekday))

get_last_workday_of_month(cur_date) ==
    LET last_day_of_month == monthrange1(Year(cur_date), Month(cur_date))
        last == ymd2ord(Year(cur_date), Month(cur_date), last_day_of_month)
        weekday == Weekday(last)
    IN  IF weekday \in {5, 6} THEN last - (weekday - 4) ELSE last

get_first_workday_of_month(cur_date) ==
    LET first == ymd2ord(Year(cur_date), Month(cur_date), 1)
        weekday == Weekday(first)
    IN  IF weekday \in {5, 6} THEN first + (7 - weekday) ELSE first

get_nth_workday_of_month(cur_date, ordinal) ==
    LET first_workday == get_first_workday_of_month(cur_date)
        nth_workday == first_workday + (ordinal - 1)
        day_delta == IF Weekday(first_workday) + ordinal - 1 > 4 THEN 2 ELSE 0
    IN  nth_workday + day_delta

-----------------------------------------------------------------------------
(* class RecurringEvent *)

\* year_incr dividing by 12 instead of 13
year_incr_by_12(month) == month \div 12

\* int(month / 13) for a month number >= 0
year_incr(month) == month \div 13

\* month - year_incr * 12, the month handed to date.replace
target_month(month) == month - year_incr(month) * 12

\* starting_date.replace(day=day, month=month - year_incr * 12,
\*                       year=starting_date.year + year_incr)
replace_month_ahead(starting_date, interval, day) ==
    LET month == Month(starting_date) + interval
    IN  replace(Year(starting_date) + year_incr(month), target_month(month), day)

\* _check_consistency without the upper limits of day and ordinal
_check_consistency_no_upper(s) ==
    IF s.last_occurence = NoDate THEN Raise("ValueError")
    ELSE IF Truthy(s.day) /\ s.day < 1 THEN Raise("ValueError")
    ELSE IF Truthy(s.ordinal) /\ s.ordinal < 1 THEN Raise("ValueError")
    ELSE IF Truthy(s.day) /\ Truthy(s.ordinal) THEN Raise("AssertionError")
    ELSE IF Truthy(s.day) /\ Truthy(s.weekday) THEN Raise("AssertionError")
    ELSE IF s.weekday = 8 /\ s.recurs # 4 THEN Raise("AssertionError")
    ELSE IF s.weekday = 8 /\ ~Truthy(s.ordinal) THEN Raise("AssertionError")
    ELSE IF s.recurs # 4 /\ Truthy(s.day) THEN Raise("AssertionError")
    ELSE IF s.recurs \notin {2, 4} /\ Truthy(s.ordinal) THEN Raise("AssertionError")
    ELSE IF s.recurs \notin {3, 4} /\ Truthy(s.weekday) THEN Raise("AssertionError")
    ELSE ReturnNone

_check_consistency(s) ==
    IF s.last_occurence = NoDate THEN Raise("ValueError")
    ELSE IF Truthy(s.day) /\ (s.day < 1 \/ s.day > 31) THEN Raise("ValueError")
    ELSE IF Truthy(s.ordinal) /\ (s.ordinal < 1 \/ s.ordinal > 5) THEN Raise("ValueError")
    ELSE IF Truthy(s.day) /\ Truthy(s.ordinal) THEN Raise("AssertionError")
    ELSE IF Truthy(s.day) /\ Truthy(s.weekday) THEN Raise("AssertionError")
    ELSE IF s.weekday = 8 /\ s.recurs # 4 THEN Raise("AssertionError")
    ELSE IF s.weekday = 8 /\ ~Truthy(s.ordinal) THEN Raise("AssertionError")
    ELSE IF s.recurs # 4 /\ Truthy(s.day) THEN Raise("AssertionError")
    ELSE IF s.recurs \notin {2, 4} /\ Truthy(s.ordinal) THEN Raise("AssertionError")
    ELSE IF s.recurs \notin {3, 4} /\ Truthy(s.weekday) THEN Raise("AssertionError")
    ELSE ReturnNone

\* the fields __init__ assigns from its arguments, before _check_consistency runs
__init__(a) ==
    [last_occurence |-> IF a.last_occurence # NoDate THEN a.last_occurence
                        ELSE a.first_occurence,
     recurs         |-> a.recurs,
     interval       |-> a.interval,
     day            |-> IF Truthy(a.day) THEN a.day ELSE None,
     ordinal        |-> IF Truthy(a.ordinal) THEN a.ordinal ELSE None,
     weekday        |-> IF Truthy(a.weekday) THEN a.weekday ELSE None,
     interval_end   |-> NoDate]

_get_daily_period(s, starting_date) == Return(starting_date + s.interval)

_get_workdaily_period(s, starting_date) ==
    IF Truthy(s.ordinal) THEN Raise("NotImplementedError")
    ELSE Return(get_next_workday_by_interval(starting_date, s.interval))

_get_ordinal_workday_period(s, starting_date) ==
    LET first == replace_month_ahead(starting_date, s.interval, 1)
    IN  IF ~IsDate(first) THEN first
        ELSE IF s.ordinal = 5 THEN Return(get_last_workday_of_month(first.val))
        ELSE IF s.ordinal = None THEN Raise("TypeError")
        ELSE Return(get_nth_workday_of_month(first.val, s.ordinal))

\* _get_weekday_period advancing by interval days instead of interval weeks
_get_weekday_period_days(s, starting_date) ==
    IF Truthy(s.ordinal)
    THEN LET first == replace_month_ahead(starting_date, s.interval, 1)
         IN  IF ~IsDate(first) THEN first
             ELSE get_nth_weekday_of_month(first.val, s.ordinal, s.weekday)
    ELSE Return(get_next_weekday(starting_date + s.interval, s.weekday))

_get_weekday_period(s, starting_date) ==
    IF Truthy(s.ordinal)
    THEN LET first == replace_month_ahead(starting_date, s.interval, 1)
         IN  IF ~IsDate(first) THEN first
             ELSE get_nth_weekday_of_month(first.val, s.ordinal, s.weekday)
    ELSE Return(get_next_weekday(starting_date + 7 * s.interval, s.weekday))

\* _get_day_period falling back to the first day of the following month
_get_day_period_no_step_back(s, starting_date) ==
    LET month == Month(starting_date) + s.interval
        event == replace_month_ahead(starting_date, s.interval, s.day)
        next_first == replace(Year(starting_date) + year_incr(month),
                              target_month(month) + 1, 1)
    IN  IF IsDate(event) THEN event ELSE next_first

_get_day_period(s, starting_date) ==
    LET month == Month(starting_date) + s.interval
        event == replace_month_ahead(starting_date, s.interval, s.day)
        next_first == replace(Year(starting_date) + year_incr(month),
                              target_month(month) + 1, 1)
    IN  IF IsDate(event) THEN event
        ELSE IF ~IsDate(next_first) THEN next_first
        ELSE Return(next_first.val - 1)

get_next_date(s, starting_date) ==
    IF Truthy(s.weekday)
    THEN IF s.weekday < 8 THEN _get_weekday_period(s, starting_date)
         ELSE _get_ordinal_workday_period(s, starting_date)
    ELSE IF Truthy(s.day) THEN _get_day_period(s, starting_date)
    ELSE IF s.recurs = 1 THEN _get_daily_period(s, starting_date)
    ELSE IF s.recurs = 2 THEN _get_workdaily_period(s, starting_date)
    ELSE ReturnNone

-----------------------------------------------------------------------------
(* Bounds of the model *)

\* intervals range over 1..MaxInterval (evaluator) and 0..MaxEnumInterval (enumerator)
MaxInterval == 13
MaxEnumInterval == 2
\* reference dates range over WindowDays + 1 days from WindowStart
WindowDays == 730
\* the evaluator's reference dates range over EvalDays + 1 days from EvalStart
EvalDays == 396
\* constructor arguments reach Slack below and above the documented ranges
Slack == 2
\* horizons are NumHorizons + 1 dates, HorizonStep days apart, around the cursor
HorizonStep == 8
NumHorizons == 9
\* get_events is called at most MaxCalls times on one instance
MaxCalls == 2
\* years of the month/year rollover inputs: WindowYear .. WindowYear + YearSpan
YearSpan == 1

WindowStart == ymd2ord(2023, 1, 1)
Window == WindowStart .. (WindowStart + WindowDays)
EvalStart == ymd2ord(2023, 12, 1)
EvalWindow == EvalStart .. (EvalStart + EvalDays)

\* the longest list a terminating enumeration can return within the horizons
MaxPeriods == HorizonStep * NumHorizons + 2

-----------------------------------------------------------------------------
(* State *)

\* the last call: its name, its date argument, its outcome, the list it returned
\* and, for get_events, the cursor (last_occurence) it started from
NoCall == [op |-> "", arg |-> NoDate, cursor |-> NoDate, out |-> ReturnNone,
           list |-> <<>>]
NoSelf == [last_occurence |-> NoDate, recurs |-> 0, interval |-> 0, day |-> None,
           ordinal |-> None, weekday |-> None, interval_end |-> NoDate]
NoArgs == [fn |-> "", last_occurence |-> NoDate, first_occurence |-> NoDate,
           recurs |-> 0, interval |-> 0, day |-> None, ordinal |-> None,
           weekday |-> None, cur_date |-> NoDate, month |-> 0, year |-> 0]

CtorArgs(last, first, recurs, interval, day, ordinal, weekday) ==
    [NoArgs EXCEPT !.fn = "RecurringEvent", !.last_occurence = last,
                   !.first_occurence = first, !.recurs = recurs,
                   !.interval = interval, !.day = day, !.ordinal = ordinal,
                   !.weekday = weekday]

\* RecurringEvent(...): __init__ assigns the fields, then _check_consistency
\* either raises (no object is obtained) or lets the object through
Construct ==
    /\ pc = "new"
    /\ LET s == __init__(args)
           c == _check_consistency(s)
       IN  IF c.kind = "raise"
           THEN /\ pc' = "failed"
                /\ self' = NoSelf
                /\ ret' = [NoCall EXCEPT !.op = "__init__", !.out = c]
           ELSE /\ pc' = "idle"
                /\ self' = s
                /\ ret' = [NoCall EXCEPT !.op = "__init__"]
    /\ UNCHANGED <<args, observed_date, periods, hist>>

\* get_next_date(starting_date) on a constructed instance, starting_date = args.cur_date
GetNextDate ==
    /\ pc = "idle"
    /\ ret' = [NoCall EXCEPT !.op = "get_next_date", !.arg = args.cur_date,
                             !.out = get_next_date(self, args.cur_date)]
    /\ UNCHANGED <<pc, args, self, observed_date, periods, hist>>

\* the outcome of a finished get_events call, as the caller sees it
Finished(h, cursor, out, list) ==
    [op |-> "get_events", arg |-> h, cursor |-> cursor, out |-> out, list |-> list]

ReturnList == [kind |-> "list", val |-> NoDate, exc |-> ""]
Running == [kind |-> "running", val |-> NoDate, exc |-> ""]

set_interval_end(s, interval_end) == [s EXCEPT !.interval_end = interval_end]

\* get_events(interval_end) up to the loop: set_interval_end, periods = [],
\* observed_date = self._last_occurence.  With no horizon, set_interval_end
\* evaluates datetime.now(), and the module imports no name datetime.
GetEventsCall(interval_end) ==
    /\ pc = "idle"
    /\ Len(hist) < MaxCalls
    /\ IF interval_end = NoDate
       THEN /\ ret' = Finished(interval_end, self.last_occurence, Raise("NameError"), <<>>)
            /\ hist' = Append(hist, ret')
            /\ UNCHANGED <<pc, self, observed_date, periods>>
       ELSE /\ self' = set_interval_end(self, interval_end)
            /\ periods' = <<>>
            /\ observed_date' = self.last_occurence
            /\ pc' = "loop"
            /\ ret' = Finished(interval_end, self.last_occurence, Running, <<>>)
            /\ UNCHANGED hist
    /\ UNCHANGED args

\* observed_date = self.get_next_date(observed_date), the first statement of an
\* iteration of the while True loop; a returned None is kept as NoDate
GetEventsEvaluate ==
    /\ pc = "loop"
    /\ LET r == get_next_date(self, observed_date)
       IN  IF r.kind = "raise"
           THEN \* the exception leaves get_events
                /\ ret' = [ret EXCEPT !.out = r]
                /\ hist' = Append(hist, ret')
                /\ pc' = "idle"
                /\ UNCHANGED observed_date
           ELSE /\ observed_date' = r.val
                /\ pc' = "test"
                /\ UNCHANGED <<ret, hist>>
    /\ UNCHANGED <<args, self, periods>>

\* the rest of the iteration with the horizon test >= instead of >
GetEventsTest_break_on_equal ==
    /\ pc = "test"
    /\ IF observed_date = NoDate
       THEN /\ ret' = [ret EXCEPT !.out = Raise("TypeError")]
            /\ hist' = Append(hist, ret')
            /\ pc' = "idle"
            /\ UNCHANGED <<self, periods>>
       ELSE IF observed_date >= self.interval_end
       THEN /\ ret' = [ret EXCEPT !.out = ReturnList, !.list = periods]
            /\ hist' = Append(hist, ret')
            /\ pc' = "idle"
            /\ UNCHANGED <<self, periods>>
       ELSE /\ periods' = IF Len(periods) < MaxPeriods
                          THEN Append(periods, observed_date) ELSE periods
            /\ self' = [self EXCEPT !.last_occurence = observed_date]
            /\ pc' = "loop"
            /\ UNCHANGED <<ret, hist>>
    /\ UNCHANGED <<args, observed_date>>

\* the rest of the iteration without the store to self._last_occurence
GetEventsTest_cursor_kept ==
    /\ pc = "test"
    /\ IF observed_date = NoDate
       THEN /\ ret' = [ret EXCEPT !.out = Raise("TypeError")]
            /\ hist' = Append(hist, ret')
            /\ pc' = "idle"
            /\ UNCHANGED <<self, periods>>
       ELSE IF observed_date > self.interval_end
       THEN /\ ret' = [ret EXCEPT !.out = ReturnList, !.list = periods]
            /\ hist' = Append(hist, ret')
            /\ pc' = "idle"
            /\ UNCHANGED <<self, periods>>
       ELSE /\ periods' = IF Len(periods) < MaxPeriods
                          THEN Append(periods, observed_date) ELSE periods
            /\ pc' = "loop"
            /\ UNCHANGED <<self, ret, hist>>
    /\ UNCHANGED <<args, observed_date>>

\* the rest of the iteration: the horizon test, periods.append and the store to
\* self._last_occurence
GetEventsTest ==
    /\ pc = "test"
    /\ IF observed_date = NoDate
       THEN \* None > date raises TypeError
            /\ ret' = [ret EXCEPT !.out = Raise("TypeError")]
            /\ hist' = Append(hist, ret')
            /\ pc' = "idle"
            /\ UNCHANGED <<self, periods>>
       ELSE IF observed_date > self.interval_end
       THEN \* break; return periods
            /\ ret' = [ret EXCEPT !.out = ReturnList, !.list = periods]
            /\ hist' = Append(hist, ret')
            /\ pc' = "idle"
            /\ UNCHANGED <<self, periods>>
       ELSE \* the list is recorded up to MaxPeriods elements
            /\ periods' = IF Len(periods) < MaxPeriods
                          THEN Append(periods, observed_date) ELSE periods
            /\ self' = [self EXCEPT !.last_occurence = observed_date]
            /\ pc' = "loop"
            /\ UNCHANGED <<ret, hist>>
    /\ UNCHANGED <<args, observed_date>>

\* the loop of get_events
GetEventsLoop == GetEventsEvaluate \/ GetEventsTest

\* the list get_events(interval_end) returns on a rule s whose cursor is
\* `observed`, for a rule on which the loop ends (ok = FALSE when it raises)
RECURSIVE get_events(_, _, _)
get_events(s, observed, interval_end) ==
    LET r == get_next_date(s, observed)
    IN  IF ~IsDate(r) THEN [ok |-> FALSE, list |-> <<>>]
        ELSE IF r.val > interval_end THEN [ok |-> TRUE, list |-> <<>>]
        ELSE LET rest == get_events(s, r.val, interval_end)
             IN  [ok |-> rest.ok, list |-> <<r.val>> \o rest.list]

-----------------------------------------------------------------------------
(* The constructor over arguments inside and outside the documented ranges *)

InitNew ==
    /\ pc = "new"
    /\ \E l \in {NoDate, WindowStart}, f \in {NoDate, WindowStart + 1}, r \in 1..4,
          d \in {None} \cup (0 - Slack)..(31 + Slack),
          o \in {None} \cup (0 - Slack)..(5 + Slack),
          w \in {None} \cup 0..(8 + Slack) :
          args = CtorArgs(l, f, r, 1, d, o, w)
    /\ self = NoSelf
    /\ observed_date = NoDate
    /\ periods = <<>>
    /\ ret = NoCall
    /\ hist = <<>>

NextNew == Construct

SpecNew == InitNew /\ [][NextNew]_vars

-----------------------------------------------------------------------------
(* The evaluator on every rule the constructor accepts *)

\* the arguments in their documented ranges: recurs 1..4, day 1..31, ordinal 1..5,
\* weekday 1..8, each of the optional ones also unset
Accepted(a) == _check_consistency(__init__(a)).kind # "raise"

InitEval ==
    /\ pc = "idle"
    /\ \E r \in 1..4, i \in 1..MaxInterval, d \in {None} \cup 1..31,
          o \in {None} \cup 1..5, w \in {None} \cup 1..8 :
          /\ Accepted(CtorArgs(EvalStart, NoDate, r, i, d, o, w))
          /\ \E sd \in EvalWindow :
                args = [CtorArgs(EvalStart, NoDate, r, i, d, o, w)
                            EXCEPT !.cur_date = sd]
    /\ self = __init__(args)
    /\ observed_date = NoDate
    /\ periods = <<>>
    /\ ret = NoCall
    /\ hist = <<>>

NextEval == GetNextDate

SpecEval == InitEval /\ [][NextEval]_vars

-----------------------------------------------------------------------------
(* Claims about the constructor *)

OutOfRange(x, lo, hi) == x # None /\ (x < lo \/ x > hi)

\* C6, as stated: every integer day outside 1..31 and every integer ordinal
\* outside 1..5 makes the constructor raise.
C6_AnyOutOfRangeRaises ==
    (ret.op = "__init__" /\ (OutOfRange(args.day, 1, 31) \/ OutOfRange(args.ordinal, 1, 5)))
        => (pc = "failed" /\ ret.out.kind = "raise")

\* C6, amended: every nonzero integer day outside 1..31 and every nonzero integer
\* ordinal outside 1..5 makes the constructor raise, and no object is obtained;
\* a day or ordinal of 0 counts as unset on the object that is built.
C6_NonzeroOutOfRangeRaises ==
    /\ (ret.op = "__init__"
          /\ \/ (args.day # 0 /\ OutOfRange(args.day, 1, 31))
             \/ (args.ordinal # 0 /\ OutOfRange(args.ordinal, 1, 5)))
        => (pc = "failed" /\ ret.out.kind = "raise" /\ self = NoSelf)
    /\ (pc = "idle" /\ args.day = 0) => self.day = None
    /\ (pc = "idle" /\ args.ordinal = 0) => self.ordinal = None

\* a day of 32 on an otherwise valid monthly rule is refused with ValueError
C6_Witness ==
    /\ pc = "failed"
    /\ args.day = 32 /\ args.ordinal = None /\ args.weekday = None
    /\ args.recurs = 4 /\ args.last_occurence # NoDate
    /\ ret.out.exc = "ValueError"

-----------------------------------------------------------------------------
(* Claims about the evaluator *)

Evaluated == ret.op = "get_next_date"

C5_DateOrRaise == Evaluated => ret.out.kind \in {"date", "raise"}

\* the calendar month `n` months after the month of date d, as <<year, month>>
MonthsAfter(d, n) ==
    LET t == 12 * Year(d) + (Month(d) - 1) + n
    IN  <<t \div 12, (t % 12) + 1>>

Min(a, b) == IF a <= b THEN a ELSE b

\* C7: a monthly rule with day k in 1..31 and interval in 1..12 yields the date
\* `interval` months after the reference date's month with day
\* min(k, days in that month), never an error.
C7_DayOfMonth ==
    (Evaluated /\ Truthy(self.day) /\ self.interval \in 1..12) =>
        LET ym == MonthsAfter(ret.arg, self.interval)
        IN  /\ IsDate(ret.out)
            /\ Year(ret.out.val) = ym[1]
            /\ Month(ret.out.val) = ym[2]
            /\ Day(ret.out.val) = Min(self.day, DaysInMonth(ym[1], ym[2]))

\* day 31 asked of a leap-year February gives the 29th
C7_Witness ==
    /\ Evaluated /\ IsDate(ret.out)
    /\ self.day = 31
    /\ Month(ret.out.val) = 2 /\ Day(ret.out.val) = 29

-----------------------------------------------------------------------------
(* The calendar primitives and the month/year rollover, applied to drawn inputs *)

RolloverYears == Year(WindowStart) .. (Year(WindowStart) + YearSpan)

\* the inputs of one call
PrimArgs(a) ==
    \/ \E d \in Window, k \in 1..6, w \in 1..8 :
          a = [NoArgs EXCEPT !.fn = "get_nth_weekday_of_month", !.cur_date = d,
                             !.ordinal = k, !.weekday = w]
    \/ \E d \in Window, n \in 1..MaxInterval :
          a = [NoArgs EXCEPT !.fn = "get_next_workday_by_interval", !.cur_date = d,
                             !.interval = n]
    \/ \E m \in 1..12, y \in RolloverYears, i \in 1..MaxInterval :
          a = [NoArgs EXCEPT !.fn = "month_rollover", !.month = m, !.year = y,
                             !.interval = i]

InitPrim ==
    /\ pc = "call"
    /\ PrimArgs(args)
    /\ self = NoSelf
    /\ observed_date = NoDate
    /\ periods = <<>>
    /\ ret = NoCall
    /\ hist = <<>>

CallNthWeekdayOfMonth ==
    /\ pc = "call" /\ args.fn = "get_nth_weekday_of_month"
    /\ pc' = "done"
    /\ ret' = [NoCall EXCEPT !.op = args.fn, !.arg = args.cur_date,
                   !.out = get_nth_weekday_of_month(args.cur_date, args.ordinal,
                                                    args.weekday)]
    /\ UNCHANGED <<args, self, observed_date, periods, hist>>

CallNextWorkdayByInterval ==
    /\ pc = "call" /\ args.fn = "get_next_workday_by_interval"
    /\ pc' = "done"
    /\ ret' = [NoCall EXCEPT !.op = args.fn, !.arg = args.cur_date,
                   !.out = Return(get_next_workday_by_interval(args.cur_date,
                                                               args.interval))]
    /\ UNCHANGED <<args, self, observed_date, periods, hist>>

\* month = starting_date.month + interval; the month and year handed to replace,
\* returned as <<targetMonth, targetYear>>
CallMonthRollover ==
    /\ pc = "call" /\ args.fn = "month_rollover"
    /\ pc' = "done"
    /\ LET month == args.month + args.interval
       IN  ret' = [NoCall EXCEPT !.op = args.fn,
                       !.list = <<target_month(month), args.year + year_incr(month)>>]
    /\ UNCHANGED <<args, self, observed_date, periods, hist>>

NextPrim == CallNthWeekdayOfMonth \/ CallNextWorkdayByInterval \/ CallMonthRollover

SpecPrim == InitPrim /\ [][NextPrim]_vars

-----------------------------------------------------------------------------
(* Claims about the primitives *)

SameMonth(a, b) == Year(a) = Year(b) /\ Month(a) = Month(b)

\* how many dates of x's month, up to and including x, fall on x's weekday
RankInMonth(x) ==
    Cardinality({j \in 1..Day(x) :
                    Weekday(ymd2ord(Year(x), Month(x), j)) = Weekday(x)})

\* C8: for ordinal k in 1..4 the result is the k-th date with weekday w in the
\* month of d; for k = 5 it is the last one: it lies in d's month and the date 7
\* days later lies in the following month.
C8_NthWeekday ==
    (ret.op = "get_nth_weekday_of_month" /\ args.ordinal \in 1..5 /\ args.weekday \in 1..7)
        => /\ IsDate(ret.out)
           /\ SameMonth(ret.out.val, args.cur_date)
           /\ Weekday(ret.out.val) = args.weekday - 1
           /\ args.ordinal <= 4 => RankInMonth(ret.out.val) = args.ordinal
           /\ args.ordinal = 5 =>
                 <<Year(ret.out.val + 7), Month(ret.out.val + 7)>>
                     = MonthsAfter(args.cur_date, 1)

\* the last weekday of a December, one week before a date of the next January
C8_Witness ==
    /\ ret.op = "get_nth_weekday_of_month" /\ IsDate(ret.out)
    /\ args.ordinal = 5 /\ Month(args.cur_date) = 12
    /\ Month(ret.out.val) = 12
    /\ Year(ret.out.val + 7) = Year(args.cur_date) + 1

RolloverCorrect ==
    /\ ret.list[1] \in 1..12
    /\ 12 * ret.list[2] + ret.list[1] = 12 * args.year + args.month + args.interval

\* C9, as stated: for every month m, year y and interval i >= 1 the rollover
\* yields a month in 1..12 and the calendar month exactly i months after (y, m).
C9_RolloverAnyInterval == ret.op = "month_rollover" => RolloverCorrect

\* C9, amended: the rollover is right whenever m + i <= 24, so for every interval
\* in 1..12; for m + i = 25 (December with interval 13) it yields month 13.
C9_RolloverUpTo24 ==
    /\ (ret.op = "month_rollover" /\ args.month + args.interval <= 24) => RolloverCorrect
    /\ (ret.op = "month_rollover" /\ args.month + args.interval = 25) => ret.list[1] = 13

\* December with interval 12 lands on December of the next year
C9_Witness ==
    /\ ret.op = "month_rollover"
    /\ args.month = 12 /\ args.interval = 12
    /\ ret.list = <<12, args.year + 1>>

\* C10, as stated: the result is d + n when that is a workday, and otherwise
\* the Monday immediately following d + n.
C10_FirstWorkdayOnOrAfter ==
    ret.op = "get_next_workday_by_interval" =>
        LET landed == args.cur_date + args.interval
        IN  IF Weekday(landed) <= 4
            THEN ret.out.val = landed
            ELSE /\ Weekday(ret.out.val) = 0
                 /\ ret.out.val > landed
                 /\ ret.out.val <= landed + 2

-----------------------------------------------------------------------------
(* The enumerator: up to MaxCalls calls of get_events on one instance *)

EnumStart == ymd2ord(2023, 12, 30)

Horizons == {NoDate} \cup {EnumStart - 1 + k * HorizonStep : k \in 0..NumHorizons}

InitEnum ==
    /\ pc = "idle"
    /\ \E r \in 1..4, i \in 0..MaxEnumInterval, d \in {None} \cup 1..31,
          o \in {None} \cup 1..5, w \in {None} \cup 1..8 :
          /\ Accepted(CtorArgs(EnumStart, NoDate, r, i, d, o, w))
          /\ args = CtorArgs(EnumStart, NoDate, r, i, d, o, w)
    /\ self = __init__(args)
    /\ observed_date = NoDate
    /\ periods = <<>>
    /\ ret = NoCall
    /\ hist = <<>>

NextEnum ==
    \/ \E h \in Horizons : GetEventsCall(h)
    \/ GetEventsEvaluate
    \/ GetEventsTest

\* a loop that has been entered keeps executing its iterations
SpecEnum == InitEnum /\ [][NextEnum]_vars /\ WF_vars(GetEventsLoop)

-----------------------------------------------------------------------------
(* Claims about the enumerator *)

Returned(c) == c.op = "get_events" /\ c.out.kind = "list"

Last(seq, default) == IF seq = <<>> THEN default ELSE seq[Len(seq)]

\* C2: the list get_events returns is the chain of next dates from the cursor
\* it started from, every element is <= the horizon, and the next date after
\* the last element (after the cursor, for an empty list) is > the horizon.
C2_EnumerationBound ==
    (pc = "idle" /\ Returned(ret)) =>
        /\ \A i \in 1..Len(ret.list) :
              /\ get_next_date(self, IF i = 1 THEN ret.cursor ELSE ret.list[i - 1])
                    = Return(ret.list[i])
              /\ ret.list[i] <= ret.arg
        /\ LET next == get_next_date(self, Last(ret.list, ret.cursor))
           IN  IsDate(next) /\ next.val > ret.arg

\* a returned list of several dates whose last one is the horizon itself
C2_Witness ==
    /\ pc = "idle" /\ Returned(ret)
    /\ Len(ret.list) >= 2
    /\ ret.list[Len(ret.list)] = ret.arg

\* C3, as stated: on every accepted rule the loop of get_events eventually
\* stops, by returning or by raising.
C3_LoopTerminates == (pc \in {"loop", "test"}) ~> (pc = "idle")

\* C4: on a rule with interval >= 1, two calls get_events(h1), get_events(h2)
\* with h1 <= h2 return lists whose concatenation is the list a fresh rule with
\* the same arguments returns for h2; after each call last_occurence is the last
\* date returned so far (the original one if none); a second call with the
\* same horizon returns the empty list.
C4_Resumption ==
    /\ (pc = "idle" /\ self.interval >= 1 /\ Len(hist) = 1 /\ Returned(hist[1])) =>
          self.last_occurence = Last(hist[1].list, args.last_occurence)
    /\ (pc = "idle" /\ self.interval >= 1 /\ Len(hist) = 2
          /\ Returned(hist[1]) /\ Returned(hist[2]) /\ hist[1].arg <= hist[2].arg) =>
          LET fresh == get_events(__init__(args), args.last_occurence, hist[2].arg)
              both  == hist[1].list \o hist[2].list
          IN  /\ fresh.ok
              /\ both = fresh.list
              /\ self.last_occurence = Last(both, args.last_occurence)
              /\ hist[1].arg = hist[2].arg => hist[2].list = <<>>

\* both calls returned dates, the second one resuming after the first
C4_Witness ==
    /\ pc = "idle" /\ Len(hist) = 2
    /\ Returned(hist[1]) /\ Returned(hist[2])
    /\ hist[1].arg < hist[2].arg
    /\ hist[1].list # <<>> /\ hist[2].list # <<>>
    /\ Truthy(self.day)

-----------------------------------------------------------------------------
(* One call of get_events on a few rule shapes, for the termination of its loop *)

LoopHorizons == {EnumStart + k * HorizonStep : k \in 0..2}

InitLoop ==
    /\ pc = "idle"
    /\ \E r \in 1..4, i \in 0..MaxEnumInterval, d \in {None, 31},
          o \in {None, 5}, w \in {None, 6, 8} :
          /\ Accepted(CtorArgs(EnumStart, NoDate, r, i, d, o, w))
          /\ args = CtorArgs(EnumStart, NoDate, r, i, d, o, w)
    /\ self = __init__(args)
    /\ observed_date = NoDate
    /\ periods = <<>>
    /\ ret = NoCall
    /\ hist = <<>>

NextLoop ==
    \/ \E h \in LoopHorizons : hist = <<>> /\ GetEventsCall(h)
    \/ GetEventsEvaluate
    \/ GetEventsTest

SpecLoop == InitLoop /\ [][NextLoop]_vars /\ WF_vars(GetEventsLoop)

====
